---------------------------- MODULE Spec2Model ----------------------------
(***************************************************************************)
(* A model of the two scripts of the repository:                           *)
(*   generate-from-json.py       (EscapeFileName, EscapePango,             *)
(*                                EscapeXelatex, GeneratePngsWith*, main)  *)
(*   render_words_on_memrise.py  (the two renderers' escapers,             *)
(*                                MemriseImageAdder, GUI)                  *)
(*                                                                         *)
(* Text is a sequence of code points.  A code point is written as a        *)
(* one-character string; a code point outside ASCII (and the tab) is       *)
(* written "U+xxxx".                                                       *)
(***************************************************************************)
EXTENDS Integers, Sequences, FiniteSets, TLC

VARIABLES
    \* ---- a caller of the escapers / the normalizer
    called,     \* the function the caller applied ("none" before the call)
    unsafe,     \* the caller's text: unsafeFileName / unsafePangoString / ...
    outs,       \* what the successive applications returned or raised
    \* ---- generate-from-json.py: main and GeneratePngsWith*
    engine,             \* args.engine
    gpc,                \* where main is
    subsetNames,        \* the keys of characterSubsets met so far
    dirs,               \* the directories in dirOutput
    subdir,             \* the subset's directory, in dirOutput
    charSegment,        \* the character segment the outer loop is at
    files,              \* the PNG files in subdir
    texput,             \* whether texput.pdf is in the working directory
    counterSeg,
    i,                  \* the rendition the inner loop is at
    counterPng,
    pngsCreated,        \* what the last GeneratePngsWith* call returned
    counterTotalPng,
    filesBefore,        \* the number of PNG files in the earlier subsets' directories
    subsetName,         \* the key of characterSubsets the loop of main is at
    written,            \* the renditions a render command was run for, each
                        \* with the path the command was told to write
    \* ---- render_words_on_memrise.py: GUI and MemriseImageAdder
    window,                         \* the window that takes the clicks
    driver,                         \* MemriseImageAdder._driver: the id of its
                                    \* webdriver session (0: None)
    page,                           \* the entries of the page the browser shows
    checkbox_skip_images_status,    \* the IntVar of the checkbox
    rpc,                            \* where render_and_upload is
    column,                         \* render_and_upload's column, zero-indexed
    skip_existing_images,
    soup,                           \* the entries parsed from the page source
    j,                              \* the entries gone through
    rendered,                       \* ids render_text was called for in this pass
    produced,                       \* ids render_text left a PNG for in this pass
    sent,                           \* ids whose input field got send_keys in this pass
    disk,                           \* ids whose render<id>.png is in the directory
    \* ---- render_words_on_memrise.py: the webdriver sessions
    sessions,                       \* the browser sessions that are open
    started,                        \* the number of sessions started so far
    calls,                          \* the number of calls a caller has made
    call,                           \* the method the caller called last
    before                          \* _driver and the open sessions before that call

textVars == <<called, unsafe, outs>>

genVars == <<engine, gpc, subsetNames, dirs, subdir, charSegment, files,
             texput, counterSeg, i, counterPng, pngsCreated, counterTotalPng,
             filesBefore, subsetName, written>>

mriVars == <<window, driver, page, checkbox_skip_images_status, rpc, column,
             skip_existing_images, soup, j, rendered, produced, sent, disk,
             sessions, started, calls, call, before>>

\* the GUI's part of the state, and the caller's record of its calls
guiVars == <<window, page, checkbox_skip_images_status, rpc, column,
             skip_existing_images, soup, j, rendered, produced, sent, disk>>

callVars == <<calls, call, before>>

vars == <<textVars, genVars, mriVars>>

-----------------------------------------------------------------------------
(* Bounds of the model *)

\* the longest text the caller draws from the alphabet
MaxLen == 2

\* how many times a caller feeds an escaper's output back into the escaper
MaxAgain == 1

\* the most subsets of a JSON specification, the most character segments of
\* a subset and the most renditions of a character segment
MaxSubsets == 2
MaxSegs == 2
MaxRend == 2

\* the most renditions of a JSON specification, all subsets together
MaxPngs == 4

\* the most entries of the unfolded levels of a page, and the largest column
\* the spinbox is set to (and the most cells of an entry)
MaxEntries == 2
MaxColumn == 2

\* the most browser sessions started on one MemriseImageAdder, and the most
\* calls of start_chrome, start_firefox and _quit_driver by one caller
MaxSessions == 2
MaxCalls == 6

-----------------------------------------------------------------------------
(* Code points *)

AsciiLetters ==
    {"a", "b", "c", "d", "e", "f", "g", "h", "i", "k", "l", "m", "n", "o", "p",
     "q", "r", "s", "t", "u", "v", "x", "F"}

AsciiDigits == {"0", "1", "2", "3", "5"}

\* e-acute and capital omega: alphanumeric code points outside ASCII
NonAsciiAlnum == {"U+00E9", "U+03A9"}

\* space, tab, no-break space
Whitespace == {" ", "U+0009", "U+00A0"}

\* str.isalnum() of one code point
isalnum(c) == c \in AsciiLetters \cup AsciiDigits \cup NonAsciiAlnum

\* str.isspace() of one code point
isspace(c) == c \in Whitespace

-----------------------------------------------------------------------------
(* Python's string operations, as the code uses them *)

\* ''.join(parts): the parts one after the other
RECURSIVE join(_)
join(parts) ==
    IF parts = <<>> THEN <<>> ELSE Head(parts) \o join(Tail(parts))

RECURSIVE lstrip(_)
lstrip(s) ==
    IF s # <<>> /\ isspace(Head(s)) THEN lstrip(Tail(s)) ELSE s

RECURSIVE rstrip(_)
rstrip(s) ==
    IF s # <<>> /\ isspace(s[Len(s)]) THEN rstrip(SubSeq(s, 1, Len(s) - 1)) ELSE s

\* str.strip(): leading and trailing whitespace removed
strip(s) == rstrip(lstrip(s))

\* str.translate(table): every code point the table maps is replaced by the
\* table's string, every other code point is copied
RECURSIVE translate(_, _)
translate(s, table) ==
    IF s = <<>> THEN <<>>
    ELSE (IF Head(s) \in DOMAIN table THEN table[Head(s)] ELSE <<Head(s)>>)
         \o translate(Tail(s), table)

\* what a call gives back: a value, or an exception with its message
Returned(v) == [raised |-> FALSE, value |-> v, message |-> <<>>]
Raised(msg) == [raised |-> TRUE, value |-> <<>>, message |-> msg]

-----------------------------------------------------------------------------
(* generate-from-json.py: EscapeFileName *)

\* a variant that puts a space where the code puts '_'
SubstBlank(c) == IF isalnum(c) \/ c \in {"_", "-"} THEN <<c>> ELSE <<" ">>

\* c if c.isalnum() or c in ('_', '-') else '_'
SubstChar(c) == IF isalnum(c) \/ c \in {"_", "-"} THEN <<c>> ELSE <<"_">>

\* the generator expression joined: one code point per code point of the label
Substituted(unsafeFileName) ==
    join([k \in 1..Len(unsafeFileName) |-> SubstChar(unsafeFileName[k])])

\* 'Filename \'{0}\' not valid.'.format(unsafeFileName)
NotValidMessage(unsafeFileName) ==
    <<"F", "i", "l", "e", "n", "a", "m", "e", " ", "'">>
    \o unsafeFileName
    \o <<"'", " ", "n", "o", "t", " ", "v", "a", "l", "i", "d", ".">>

\* a variant that strips the label, not the result
EscapeFileName_StripFirst(unsafeFileName) ==
    LET safeFileName == Substituted(strip(unsafeFileName))
    IN  IF 0 < Len(safeFileName)
        THEN Returned(safeFileName)
        ELSE Raised(NotValidMessage(unsafeFileName))

\* a variant without the test of the length
EscapeFileName_NeverRaises(unsafeFileName) ==
    Returned(strip(Substituted(unsafeFileName)))

\* EscapeFileName: the joined string stripped, returned when it is not empty
EscapeFileName(unsafeFileName) ==
    LET safeFileName == strip(Substituted(unsafeFileName))
    IN  IF 0 < Len(safeFileName)
        THEN Returned(safeFileName)
        ELSE Raised(NotValidMessage(unsafeFileName))

-----------------------------------------------------------------------------
(* generate-from-json.py: EscapePango, EscapeXelatex *)

EscapePangoTable ==
       ("&" :> <<"&", "a", "m", "p", "\\", ";">>)
    @@ ("<" :> <<"&", "l", "t", "\\", ";">>)
    @@ (">" :> <<"&", "g", "t", "\\", ";">>)
    @@ ("\"" :> <<"&", "q", "u", "o", "t", "\\", ";">>)
    @@ ("'" :> <<"&", "a", "p", "o", "s", "\\", ";">>)
    @@ ("\\" :> <<"&", "#", "x", "5", "c", "\\", ";">>)
    @@ ("%" :> <<"&", "#", "x", "2", "5", "\\", ";">>)

EscapeXelatexTable ==
       ("#" :> <<"\\", "#">>)
    @@ ("&" :> <<"\\", "&">>)
    @@ ("%" :> <<"\\", "%">>)
    @@ ("$" :> <<"\\", "$">>)
    @@ ("_" :> <<"\\", "_">>)
    @@ ("{" :> <<"\\", "{">>)
    @@ ("}" :> <<"\\", "}">>)
    @@ ("~" :> <<"\\", "t", "e", "x", "t", "a", "s", "c", "i", "i", "t", "i",
                 "l", "d", "e", "{", "}">>)
    @@ ("^" :> <<"\\", "t", "e", "x", "t", "a", "s", "c", "i", "i", "c", "i",
                 "r", "c", "u", "m", "{", "}">>)
    @@ ("\\" :> <<"\\", "t", "e", "x", "t", "b", "a", "c", "k", "s", "l", "a",
                  "s", "h", "{", "}">>)
    @@ ("\"" :> <<"\\", "c", "h", "a", "r", "\"", "2", "2">>)

\* a table with one code point left out
Without(table, c) == [k \in DOMAIN table \ {c} |-> table[k]]

\* a table with one replacement changed
With(table, c, r) == [k \in DOMAIN table |-> IF k = c THEN r ELSE table[k]]

IsPrefix(p, s) == Len(p) <= Len(s) /\ SubSeq(s, 1, Len(p)) = p

Drop(s, n) == SubSeq(s, n + 1, Len(s))

\* a translation that copies a replacement string it finds in its input
RECURSIVE translateDetecting(_, _)
translateDetecting(s, table) ==
    IF s = <<>> THEN <<>>
    ELSE LET found == {c \in DOMAIN table : IsPrefix(table[c], s)}
         IN  IF found # {}
             THEN LET e == table[CHOOSE c \in found : TRUE]
                  IN  e \o translateDetecting(Drop(s, Len(e)), table)
             ELSE (IF Head(s) \in DOMAIN table THEN table[Head(s)] ELSE <<Head(s)>>)
                  \o translateDetecting(Tail(s), table)

\* variants of EscapePango: '%' not in the table; '<' replaced by text with no
\* reserved code point; escaped text detected; an entity without its '\'
EscapePango_NoPercent(unsafePangoString) ==
    translate(unsafePangoString, Without(EscapePangoTable, "%"))

EscapePango_PlainLt(unsafePangoString) ==
    translate(unsafePangoString, With(EscapePangoTable, "<", <<"l", "t">>))

EscapePango_Detecting(unsafePangoString) ==
    translateDetecting(unsafePangoString, EscapePangoTable)

EscapePango_NoSeparator(unsafePangoString) ==
    translate(unsafePangoString, With(EscapePangoTable, "<", <<"&", "l", "t", ";">>))

EscapePango(unsafePangoString) ==
    translate(unsafePangoString, EscapePangoTable)

\* a variant of EscapeXelatex with the replacement of '^' given to '~' too
EscapeXelatex_TildeAsCircum(unsafeXelatexString) ==
    translate(unsafeXelatexString,
              With(EscapeXelatexTable, "~", EscapeXelatexTable["^"]))

EscapeXelatex(unsafeXelatexString) ==
    translate(unsafeXelatexString, EscapeXelatexTable)

-----------------------------------------------------------------------------
(* render_words_on_memrise.py: the renderers' translation tables *)

\* a variant of the renderer's table that leaves '"' as it is
XelatexTrans_NoQuote == Without(EscapeXelatexTable, "\"")

\* XelatexImageMagickPngTextRenderer.__init__: self._trans
XelatexTrans ==
       ("#" :> <<"\\", "#">>)
    @@ ("&" :> <<"\\", "&">>)
    @@ ("%" :> <<"\\", "%">>)
    @@ ("$" :> <<"\\", "$">>)
    @@ ("_" :> <<"\\", "_">>)
    @@ ("{" :> <<"\\", "{">>)
    @@ ("}" :> <<"\\", "}">>)
    @@ ("~" :> <<"\\", "t", "e", "x", "t", "a", "s", "c", "i", "i", "t", "i",
                 "l", "d", "e", "{", "}">>)
    @@ ("^" :> <<"\\", "t", "e", "x", "t", "a", "s", "c", "i", "i", "c", "i",
                 "r", "c", "u", "m", "{", "}">>)
    @@ ("\\" :> <<"\\", "t", "e", "x", "t", "b", "a", "c", "k", "s", "l", "a",
                  "s", "h", "{", "}">>)
    @@ ("\"" :> <<"\\", "c", "h", "a", "r", "\"", "2", "2">>)

\* ImageMagickPangoPngTextRenderer.__init__: self._trans
PangoTrans ==
       ("&" :> <<"&", "a", "m", "p", "\\", ";">>)
    @@ ("<" :> <<"&", "l", "t", "\\", ";">>)
    @@ (">" :> <<"&", "g", "t", "\\", ";">>)
    @@ ("\"" :> <<"&", "q", "u", "o", "t", "\\", ";">>)
    @@ ("'" :> <<"&", "a", "p", "o", "s", "\\", ";">>)
    @@ ("\\" :> <<"&", "#", "x", "5", "c", "\\", ";">>)
    @@ ("%" :> <<"&", "#", "x", "2", "5", "\\", ";">>)

make_string_xelatex_safe(unsafe_string) == translate(unsafe_string, XelatexTrans)

make_string_pango_safe(unsafe_string) == translate(unsafe_string, PangoTrans)

-----------------------------------------------------------------------------
(* The three programs are run apart: while one runs, the state of the other
   two stays as below *)

TextIdle ==
    /\ called = "none"
    /\ unsafe = <<>>
    /\ outs = <<>>

\* the value of charSegment outside the outer loop
NoSegment == [name |-> <<>>, renditions |-> 0]

GenIdle ==
    /\ engine = "pango"
    /\ gpc = "idle"
    /\ subsetNames = {}
    /\ dirs = {}
    /\ subdir = <<>>
    /\ charSegment = NoSegment
    /\ files = {}
    /\ texput = FALSE
    /\ counterSeg = 0
    /\ i = 0
    /\ counterPng = 0
    /\ pngsCreated = 0
    /\ counterTotalPng = 0
    /\ filesBefore = 0
    /\ subsetName = <<>>
    /\ written = {}

MriIdle ==
    /\ window = "none"
    /\ driver = 0
    /\ page = <<>>
    /\ checkbox_skip_images_status = 0
    /\ rpc = "idle"
    /\ column = 0
    /\ skip_existing_images = FALSE
    /\ soup = <<>>
    /\ j = 0
    /\ rendered = {}
    /\ produced = {}
    /\ sent = {}
    /\ disk = {}
    /\ sessions = {}
    /\ started = 0
    /\ calls = 0
    /\ call = "none"
    /\ before = <<0, {}>>

-----------------------------------------------------------------------------
(* The caller of the text functions *)

MarkupEscapers == {"EscapePango", "make_string_pango_safe"}
TypesettingEscapers == {"EscapeXelatex", "make_string_xelatex_safe"}
Escapers == MarkupEscapers \cup TypesettingEscapers

\* the function `f` applied to the text `s`
Apply(f, s) ==
    CASE f = "EscapeFileName"           -> EscapeFileName(s)
      [] f = "EscapePango"              -> Returned(EscapePango(s))
      [] f = "EscapeXelatex"            -> Returned(EscapeXelatex(s))
      [] f = "make_string_pango_safe"   -> Returned(make_string_pango_safe(s))
      [] f = "make_string_xelatex_safe" -> Returned(make_string_xelatex_safe(s))

\* the code points the caller's bounded texts are made of: every reserved code
\* point of both dialects, and letters, digits, whitespace, '-' and others
Alphabet ==
    {"&", "<", ">", "\"", "'", "\\", "%", "#", "$", "_", "{", "}", "~", "^",
     "a", "1", " ", "-", "/"}

\* the texts of the specification's concrete cases
ExampleTexts ==
    { <<"5", " ", "<", " ", "3", " ", "&", " ", "2", " ", ">", " ", "1">>,
      <<"5", "0", "%", " ", "o", "f", "f", "_", "s", "a", "l", "e">>,
      <<"c", "a", "f", "U+00E9", " ", "U+03A9", "#", "1">>,
      <<".", ".", ".">>,
      <<"a", "/", "b">>,
      <<"a", "_", "b">>,
      <<"U+00A0", "a", "U+0009">> }

Texts == (UNION {[1..n -> Alphabet] : n \in 0..MaxLen}) \cup ExampleTexts

TextInit ==
    /\ called = "none"
    /\ unsafe \in Texts
    /\ outs = <<>>
    /\ GenIdle
    /\ MriIdle

CallEscapeFileName ==
    /\ called = "none"
    /\ called' = "EscapeFileName"
    /\ outs' = <<EscapeFileName(unsafe)>>
    /\ UNCHANGED <<unsafe, genVars, mriVars>>

CallEscapePango ==
    /\ called = "none"
    /\ called' = "EscapePango"
    /\ outs' = <<Returned(EscapePango(unsafe))>>
    /\ UNCHANGED <<unsafe, genVars, mriVars>>

CallEscapeXelatex ==
    /\ called = "none"
    /\ called' = "EscapeXelatex"
    /\ outs' = <<Returned(EscapeXelatex(unsafe))>>
    /\ UNCHANGED <<unsafe, genVars, mriVars>>

CallMakeStringPangoSafe ==
    /\ called = "none"
    /\ called' = "make_string_pango_safe"
    /\ outs' = <<Returned(make_string_pango_safe(unsafe))>>
    /\ UNCHANGED <<unsafe, genVars, mriVars>>

CallMakeStringXelatexSafe ==
    /\ called = "none"
    /\ called' = "make_string_xelatex_safe"
    /\ outs' = <<Returned(make_string_xelatex_safe(unsafe))>>
    /\ UNCHANGED <<unsafe, genVars, mriVars>>

\* a caller that escapes text that is already escaped
EscapeAgain ==
    /\ called \in Escapers
    /\ Len(outs) <= MaxAgain
    /\ outs' = Append(outs, Apply(called, outs[Len(outs)].value))
    /\ UNCHANGED <<called, unsafe, genVars, mriVars>>

TextNext ==
    \/ CallEscapeFileName
    \/ CallEscapePango
    \/ CallEscapeXelatex
    \/ CallMakeStringPangoSafe
    \/ CallMakeStringXelatexSafe
    \/ EscapeAgain

Spec == TextInit /\ [][TextNext]_vars

-----------------------------------------------------------------------------
(* generate-from-json.py: GeneratePngsWithPango, GeneratePngsWithXelatex, main *)

DigitChar(d) ==
    CASE d = 0 -> "0" [] d = 1 -> "1" [] d = 2 -> "2" [] d = 3 -> "3"
      [] d = 4 -> "4" [] d = 5 -> "5" [] d = 6 -> "6" [] d = 7 -> "7"
      [] d = 8 -> "8" [] d = 9 -> "9"

\* '{0}'.format(n) of a number n >= 0
RECURSIVE Decimal(_)
Decimal(n) ==
    IF n < 10 THEN <<DigitChar(n)>> ELSE Decimal(n \div 10) \o <<DigitChar(n % 10)>>

\* '{0:03d}'.format(n): zeros in front up to three digits
Decimal03(n) ==
    LET d == Decimal(n)
    IN  IF Len(d) >= 3 THEN d ELSE [k \in 1..(3 - Len(d)) |-> "0"] \o d

\* a variant of the file name without the number of the segment
FileName_NoIndex(seg, safe, rend) ==
    IF 0 < rend
    THEN safe \o <<"-">> \o Decimal(rend + 1) \o <<".", "p", "n", "g">>
    ELSE safe \o <<".", "p", "n", "g">>

\* '{0:03d}-{1}-{2}.png'.format(counterSeg + 1, safe, i + 1) if 0 < i
\* else '{0:03d}-{1}.png'.format(counterSeg + 1, safe)
FileName(seg, safe, rend) ==
    IF 0 < rend
    THEN Decimal03(seg + 1) \o <<"-">> \o safe \o <<"-">> \o Decimal(rend + 1)
         \o <<".", "p", "n", "g">>
    ELSE Decimal03(seg + 1) \o <<"-">> \o safe \o <<".", "p", "n", "g">>

\* the names of the subsets and of the character segments of a JSON
\* specification ("a/b" and "a_b" normalize to one name, "tmp" is the name of
\* the working directory, "" has no safe name)
SubsetNames == { <<"a", "/", "b">>, <<"a", "_", "b">>, <<"t", "m", "p">> }
SegmentNames == { <<"a">>, <<"a", "-", "2">>, <<>> }

\* a character segment: its name and the number of its renditions
CharSegments == [name : SegmentNames, renditions : 0..MaxRend]

\* os.path.join(strOutputDirectory, fileName), below dirOutput
Path(directory, fileName) == <<directory, fileName>>

\* the rendition the inner loop is at, and the path its PNG is to be written to
Item(safe) ==
    [subset |-> subsetName, seg |-> counterSeg, rend |-> i,
     path |-> Path(subdir, FileName(counterSeg, safe, i))]

\* main up to the loop over the subsets: the output directory is new, and with
\* the xelatex engine it holds the working directory 'tmp'
GenInit ==
    /\ engine \in {"pango", "xelatex"}
    /\ gpc = "subsets"
    /\ subsetNames = {}
    /\ dirs = IF engine = "xelatex" THEN { <<"t", "m", "p">> } ELSE {}
    /\ subdir = <<>>
    /\ charSegment = NoSegment
    /\ files = {}
    /\ texput = FALSE
    /\ counterSeg = 0
    /\ i = 0
    /\ counterPng = 0
    /\ pngsCreated = 0
    /\ counterTotalPng = 0
    /\ filesBefore = 0
    /\ subsetName = <<>>
    /\ written = {}
    /\ TextIdle
    /\ MriIdle

\* main: the next subset of characterSubsets.items(): its directory is made
\* and GeneratePngsWith* is entered.  EscapeFileName may raise, and
\* os.makedirs raises when the directory exists.
NextSubset ==
    /\ gpc = "subsets"
    /\ Cardinality(subsetNames) < MaxSubsets
    /\ \E name \in SubsetNames \ subsetNames :
         LET safe == EscapeFileName(name)
         IN  /\ subsetNames' = subsetNames \cup {name}
             /\ subsetName' = name
             /\ IF safe.raised \/ safe.value \in dirs
                THEN /\ gpc' = "raised"
                     /\ UNCHANGED <<dirs, subdir, files, filesBefore, counterSeg,
                                    i, counterPng>>
                ELSE /\ gpc' = "enter"
                     /\ dirs' = dirs \cup {safe.value}
                     /\ subdir' = safe.value
                     /\ filesBefore' = filesBefore + Cardinality(files)
                     /\ files' = {}
                     /\ counterSeg' = 0
                     /\ i' = 0
                     /\ counterPng' = 0
    /\ UNCHANGED <<engine, charSegment, texput, pngsCreated, counterTotalPng,
                   written>>
    /\ UNCHANGED <<textVars, mriVars>>

\* whether the outer loop over listCharSegments is asked for a segment: on
\* entry, and when the inner loop is through the renditions of a segment
AtSegmentEnd ==
    \/ gpc = "enter"
    \/ gpc = "generate" /\ i = charSegment.renditions

\* whether the inner loop has a rendition left in the segment it is at
AtRendition ==
    /\ gpc = "generate"
    /\ i < charSegment.renditions

\* GeneratePngsWithPango, one rendition: the file name is made (EscapeFileName
\* may raise), magick is run and the counter goes up.  magick writes the PNG
\* ("written"), ends with an error and writes nothing ("failed"), or is not
\* installed, and subprocess.run raises ("absent").
PangoRendition ==
    /\ engine = "pango"
    /\ AtRendition
    /\ LET safe == EscapeFileName(charSegment.name)
       IN  IF safe.raised
           THEN /\ gpc' = "raised"
                /\ UNCHANGED <<files, counterPng, i, written>>
           ELSE \E magick \in {"written", "failed", "absent"} :
                  IF magick = "absent"
                  THEN /\ gpc' = "raised"
                       /\ UNCHANGED <<files, counterPng, i, written>>
                  ELSE /\ files' = IF magick = "written"
                                   THEN files \cup {FileName(counterSeg, safe.value, i)}
                                   ELSE files
                       /\ written' = written \cup {Item(safe.value)}
                       /\ counterPng' = counterPng + 1
                       /\ i' = i + 1
                       /\ UNCHANGED gpc
    /\ UNCHANGED <<engine, subsetNames, dirs, subdir, charSegment, texput,
                   counterSeg, pngsCreated, counterTotalPng, filesBefore,
                   subsetName>>
    /\ UNCHANGED <<textVars, mriVars>>

\* GeneratePngsWithXelatex, one rendition: xelatex is run (it writes
\* texput.pdf or not), the file name is made (EscapeFileName may raise),
\* magick is run on texput.pdf and the counter goes up
XelatexRendition ==
    /\ engine = "xelatex"
    /\ AtRendition
    /\ \E xelatex \in {"written", "failed", "absent"} :
         IF xelatex = "absent"
         THEN /\ gpc' = "raised"
              /\ UNCHANGED <<files, counterPng, i, texput, written>>
         ELSE LET pdf == texput \/ xelatex = "written"
                  safe == EscapeFileName(charSegment.name)
              IN  /\ texput' = pdf
                  /\ IF safe.raised
                     THEN /\ gpc' = "raised"
                          /\ UNCHANGED <<files, counterPng, i, written>>
                     ELSE \E magick \in {"written", "failed", "absent"} :
                            IF magick = "absent"
                            THEN /\ gpc' = "raised"
                                 /\ UNCHANGED <<files, counterPng, i, written>>
                            ELSE /\ files' = IF magick = "written" /\ pdf
                                             THEN files \cup
                                                  {FileName(counterSeg, safe.value, i)}
                                             ELSE files
                                 /\ written' = written \cup {Item(safe.value)}
                                 /\ counterPng' = counterPng + 1
                                 /\ i' = i + 1
                                 /\ UNCHANGED gpc
    /\ UNCHANGED <<engine, subsetNames, dirs, subdir, charSegment,
                   counterSeg, pngsCreated, counterTotalPng, filesBefore,
                   subsetName>>
    /\ UNCHANGED <<textVars, mriVars>>

\* the outer loop of GeneratePngsWith*: counterSeg += 1 ends a segment, and
\* the loop takes the next segment of the list.  The list is the input's: its
\* segments are drawn as the loop reaches them, MaxSegs of them at most.
NextSegment ==
    /\ AtSegmentEnd
    /\ LET index == IF gpc = "enter" THEN 0 ELSE counterSeg + 1
       IN  /\ index < MaxSegs
           /\ \E segment \in CharSegments :
                /\ counterTotalPng + counterPng + segment.renditions <= MaxPngs
                /\ charSegment' = segment
           /\ counterSeg' = index
    /\ i' = 0
    /\ gpc' = "generate"
    /\ UNCHANGED <<engine, subsetNames, dirs, subdir, files, texput,
                   counterPng, pngsCreated, counterTotalPng, filesBefore, subsetName,
                   written>>
    /\ UNCHANGED <<textVars, mriVars>>

\* the list has no further segment: return counterPng, and main adds it to
\* its total.  The locals of GeneratePngsWith* are gone.
ReturnCounterPng ==
    /\ AtSegmentEnd
    /\ pngsCreated' = counterPng
    /\ counterTotalPng' = counterTotalPng + counterPng
    /\ gpc' = "subsets"
    /\ charSegment' = NoSegment
    /\ counterSeg' = 0
    /\ i' = 0
    /\ counterPng' = 0
    /\ UNCHANGED <<engine, subsetNames, dirs, subdir, files, texput,
                   filesBefore, subsetName, written>>
    /\ UNCHANGED <<textVars, mriVars>>

\* main after the loop: the working directory is emptied and removed
Finish ==
    /\ gpc = "subsets"
    /\ texput' = FALSE
    /\ dirs' = IF engine = "xelatex" THEN dirs \ { <<"t", "m", "p">> } ELSE dirs
    /\ gpc' = "done"
    /\ UNCHANGED <<engine, subsetNames, subdir, charSegment, files,
                   counterSeg, i, counterPng, pngsCreated, counterTotalPng,
                   filesBefore, subsetName, written>>
    /\ UNCHANGED <<textVars, mriVars>>

GenNext ==
    \/ NextSubset
    \/ PangoRendition
    \/ XelatexRendition
    \/ NextSegment
    \/ ReturnCounterPng
    \/ Finish

SpecGenerate == GenInit /\ [][GenNext]_vars

\* C11: within one run no two renditions, told apart by subset, place of the
\* segment and number of the rendition, are written to one path, also when
\* names of segments, or a name and a name with the suffix of a rendition,
\* normalize to one file name component
C11_UniquePaths ==
    \A a \in written : \A b \in written : a.path = b.path => a = b

\* "a" with two renditions, then "a-2": the second rendition of the first and
\* the first of the second differ in the number in front only
C11_Witness ==
    /\ gpc = "done"
    /\ Cardinality(subsetNames) = 2
    /\ \E a \in written : \E b \in written :
         /\ a.subset = b.subset
         /\ a.seg = 0 /\ a.rend = 1
         /\ b.seg = 1 /\ b.rend = 0
         /\ a.path[2] = <<"0", "0", "1", "-", "a", "-", "2", ".", "p", "n", "g">>
         /\ b.path[2] = <<"0", "0", "2", "-", "a", "-", "2", ".", "p", "n", "g">>
    /\ \E a \in written : \E b \in written : a.subset # b.subset

\* C10: GeneratePngsWithPango and GeneratePngsWithXelatex return the number
\* of PNG files the call produced in the output directory, also when magick
\* or xelatex fails for some rendition
C10_ReturnsPngsCreated ==
    (gpc = "subsets" /\ subsetNames # {}) => pngsCreated = Cardinality(files)

-----------------------------------------------------------------------------
(* render_words_on_memrise.py: GUI and MemriseImageAdder *)

\* an entry (a tr of class 'thing') of an unfolded level: the number of its
\* cells of class 'cell', and whether its image button lacks the class
\* 'disabled'.  Its data-thing-id is its place on the page.
Entries == [cells : 0..MaxColumn, has_image : BOOLEAN]

\* the entries of the unfolded levels of a course's edit page, level after
\* level
Pages == UNION {[1..n -> Entries] : n \in 0..MaxEntries}

\* GUI.__init__ after _build_main_window: the first dialog is up, the checkbox
\* is selected, no browser is started.  `page` is the page the user will open.
MriInit ==
    /\ window = "dialog1"
    /\ driver = 0
    /\ page \in Pages
    /\ checkbox_skip_images_status = 1
    /\ rpc = "idle"
    /\ column = 0
    /\ skip_existing_images = FALSE
    /\ soup = <<>>
    /\ j = 0
    /\ rendered = {}
    /\ produced = {}
    /\ sent = {}
    /\ disk = {}
    /\ sessions = {}
    /\ started = 0
    /\ calls = 0
    /\ call = "none"
    /\ before = <<0, {}>>
    /\ TextIdle
    /\ GenIdle

\* a variant of _quit_driver that drops the session without quitting it
Quitted_Forgets(d, open) == open

\* the open sessions after _quit_driver: the session of _driver, if any, has
\* been quit
Quitted(d, open) == IF d # 0 THEN {s \in open : s.id # d} ELSE open

\* how the lines after _quit_driver in start_chrome and start_firefox end:
\* webdriver.Chrome() or webdriver.Firefox() raises and no session is
\* started ("no browser"), the session is started and get() raises
\* ("no page"), or both go through ("started")
StartOutcomes == {"started", "no page", "no browser"}

\* _driver, the open sessions and their number after start_chrome or
\* start_firefox
StartBrowser(browser, outcome) ==
    LET open == Quitted(driver, sessions)
        id == started + 1
    IN  IF outcome = "no browser"
        THEN [driver |-> 0, sessions |-> open, started |-> started]
        ELSE [driver |-> id,
              sessions |-> open \cup {[id |-> id, browser |-> browser]},
              started |-> id]

\* _btn_chrome_click: start_chrome, then the dialog is destroyed and the
\* second dialog is shown.  When start_chrome raises, the exception ends the
\* handler and the dialog stays.
BtnChromeClick ==
    /\ window = "dialog1"
    /\ started < MaxSessions
    /\ \E outcome \in StartOutcomes :
         LET after == StartBrowser("chrome", outcome)
         IN  /\ driver' = after.driver
             /\ sessions' = after.sessions
             /\ started' = after.started
             /\ window' = IF outcome = "started" THEN "dialog2" ELSE window
    /\ UNCHANGED <<page, checkbox_skip_images_status, rpc, column,
                   skip_existing_images, soup, j, rendered, produced, sent,
                   disk>>
    /\ UNCHANGED callVars
    /\ UNCHANGED <<textVars, genVars>>

\* _btn_firefox_click: as _btn_chrome_click, with start_firefox
BtnFirefoxClick ==
    /\ window = "dialog1"
    /\ started < MaxSessions
    /\ \E outcome \in StartOutcomes :
         LET after == StartBrowser("firefox", outcome)
         IN  /\ driver' = after.driver
             /\ sessions' = after.sessions
             /\ started' = after.started
             /\ window' = IF outcome = "started" THEN "dialog2" ELSE window
    /\ UNCHANGED <<page, checkbox_skip_images_status, rpc, column,
                   skip_existing_images, soup, j, rendered, produced, sent,
                   disk>>
    /\ UNCHANGED callVars
    /\ UNCHANGED <<textVars, genVars>>

\* _btn_ok2_click: the second dialog is destroyed, the main loop runs
BtnOk2Click ==
    /\ window = "dialog2"
    /\ window' = "main"
    /\ UNCHANGED <<driver, page, checkbox_skip_images_status, rpc, column,
                   skip_existing_images, soup, j, rendered, produced, sent,
                   disk>>
    /\ UNCHANGED <<sessions, started, callVars>>
    /\ UNCHANGED <<textVars, genVars>>

\* close_main_window: Cancel in a dialog, or a dialog closed
CloseMainWindow ==
    /\ window \in {"dialog1", "dialog2"}
    /\ window' = "closed"
    /\ UNCHANGED <<driver, page, checkbox_skip_images_status, rpc, column,
                   skip_existing_images, soup, j, rendered, produced, sent,
                   disk>>
    /\ UNCHANGED <<sessions, started, callVars>>
    /\ UNCHANGED <<textVars, genVars>>

\* a click on the checkbox 'Skip items that already have an image'
CheckboxSkipImagesClick ==
    /\ window = "main"
    /\ rpc # "running"
    /\ checkbox_skip_images_status' = 1 - checkbox_skip_images_status
    /\ UNCHANGED <<window, driver, page, rpc, column, skip_existing_images,
                   soup, j, rendered, produced, sent,
                   disk>>
    /\ UNCHANGED <<sessions, started, callVars>>
    /\ UNCHANGED <<textVars, genVars>>

\* _button_start_click: the settings are gathered and render_and_upload is
\* entered: the column is made zero-indexed and the page source is parsed
ButtonStartClick ==
    /\ window = "main"
    /\ rpc # "running"
    /\ \E spinbox_column \in 1..MaxColumn :
         /\ column' = spinbox_column - 1
         /\ skip_existing_images' = (checkbox_skip_images_status # 0)
         /\ IF driver = 0
            THEN /\ rpc' = "raised"
                 /\ soup' = <<>>
            ELSE /\ rpc' = "running"
                 /\ soup' = page
         /\ j' = 0
         /\ rendered' = {}
         /\ produced' = {}
         /\ sent' = {}
    /\ UNCHANGED <<window, driver, page, checkbox_skip_images_status, disk>>
    /\ UNCHANGED <<sessions, started, callVars>>
    /\ UNCHANGED <<textVars, genVars>>

\* a variant with 'or' for 'and'
ToRender_Or(skip, has_image) == ~(skip \/ has_image)

\* not (skip_existing_images and has_image)
ToRender(skip, has_image) == ~(skip /\ has_image)

\* render_and_upload, one entry of the loop.  The input field is looked up
\* (find_element may raise), render_text is called (it leaves the file, or
\* no file, or raises, which is caught), and when the file is there it is
\* sent to the input field and removed (send_keys may raise: the file stays).
\* The site then shows the entry's image on the page, at once or later.
ProcessEntry ==
    /\ rpc = "running"
    /\ j < Len(soup)
    /\ LET tr_id == j + 1
           entry == soup[tr_id]
       IN  IF column < entry.cells /\ ToRender(skip_existing_images, entry.has_image)
           THEN \E found \in BOOLEAN :
                \E render \in {"file", "nofile", "raised"} :
                \E keys \in {"sent", "raised"} :
                \E shown \in BOOLEAN :
                  IF ~found
                  THEN /\ rpc' = "raised"
                       /\ UNCHANGED <<j, rendered, produced, sent, disk, page>>
                  ELSE LET isfile == tr_id \in disk \/ render = "file"
                       IN  /\ rendered' = rendered \cup {tr_id}
                           /\ produced' = IF render = "file"
                                           THEN produced \cup {tr_id}
                                           ELSE produced
                           /\ IF isfile
                              THEN /\ sent' = sent \cup {tr_id}
                                   /\ IF keys = "sent"
                                      THEN /\ disk' = disk \ {tr_id}
                                           /\ page' = IF shown
                                                      THEN [page EXCEPT ![tr_id].has_image = TRUE]
                                                      ELSE page
                                           /\ j' = j + 1
                                           /\ UNCHANGED rpc
                                      ELSE /\ disk' = disk \cup {tr_id}
                                           /\ rpc' = "raised"
                                           /\ UNCHANGED <<j, page>>
                              ELSE /\ j' = j + 1
                                   /\ UNCHANGED <<sent, disk, rpc, page>>
           ELSE /\ j' = j + 1
                /\ UNCHANGED <<rpc, rendered, produced, sent, disk, page>>
    /\ UNCHANGED <<window, driver, checkbox_skip_images_status, column,
                   skip_existing_images, soup>>
    /\ UNCHANGED <<sessions, started, callVars>>
    /\ UNCHANGED <<textVars, genVars>>

\* render_and_upload returns: every level is done
ReturnFromUpload ==
    /\ rpc = "running"
    /\ j = Len(soup)
    /\ rpc' = "returned"
    /\ UNCHANGED <<window, driver, page, checkbox_skip_images_status, column,
                   skip_existing_images, soup, j, rendered, produced, sent,
                   disk>>
    /\ UNCHANGED <<sessions, started, callVars>>
    /\ UNCHANGED <<textVars, genVars>>

MriNext ==
    \/ BtnChromeClick
    \/ BtnFirefoxClick
    \/ BtnOk2Click
    \/ CloseMainWindow
    \/ CheckboxSkipImagesClick
    \/ ButtonStartClick
    \/ ProcessEntry
    \/ ReturnFromUpload

SpecMemrise == MriInit /\ [][MriNext]_vars

-----------------------------------------------------------------------------
(* render_words_on_memrise.py: calls of start_chrome, start_firefox and
   _quit_driver on one MemriseImageAdder *)

\* MemriseImageAdder.__init__: _driver is None
DrvInit ==
    /\ driver = 0
    /\ sessions = {}
    /\ started = 0
    /\ calls = 0
    /\ call = "none"
    /\ before = <<0, {}>>
    /\ window = "none"
    /\ page = <<>>
    /\ checkbox_skip_images_status = 0
    /\ rpc = "idle"
    /\ column = 0
    /\ skip_existing_images = FALSE
    /\ soup = <<>>
    /\ j = 0
    /\ rendered = {}
    /\ produced = {}
    /\ sent = {}
    /\ disk = {}
    /\ TextIdle
    /\ GenIdle

\* start_chrome: _quit_driver, then webdriver.Chrome() and get()
StartChrome ==
    /\ calls < MaxCalls
    /\ started < MaxSessions
    /\ \E outcome \in StartOutcomes :
         LET after == StartBrowser("chrome", outcome)
         IN  /\ driver' = after.driver
             /\ sessions' = after.sessions
             /\ started' = after.started
    /\ calls' = calls + 1
    /\ call' = "start_chrome"
    /\ before' = <<driver, sessions>>
    /\ UNCHANGED guiVars
    /\ UNCHANGED <<textVars, genVars>>

\* start_firefox: _quit_driver, then webdriver.Firefox() and get()
StartFirefox ==
    /\ calls < MaxCalls
    /\ started < MaxSessions
    /\ \E outcome \in StartOutcomes :
         LET after == StartBrowser("firefox", outcome)
         IN  /\ driver' = after.driver
             /\ sessions' = after.sessions
             /\ started' = after.started
    /\ calls' = calls + 1
    /\ call' = "start_firefox"
    /\ before' = <<driver, sessions>>
    /\ UNCHANGED guiVars
    /\ UNCHANGED <<textVars, genVars>>

\* _quit_driver, called by the caller or by __del__: if self._driver, the
\* session is quit and _driver is None
QuitDriver ==
    /\ calls < MaxCalls
    /\ sessions' = Quitted(driver, sessions)
    /\ driver' = 0
    /\ calls' = calls + 1
    /\ call' = "_quit_driver"
    /\ before' = <<driver, sessions>>
    /\ UNCHANGED started
    /\ UNCHANGED guiVars
    /\ UNCHANGED <<textVars, genVars>>

DrvNext ==
    \/ StartChrome
    \/ StartFirefox
    \/ QuitDriver

SpecDriver == DrvInit /\ [][DrvNext]_vars

\* C13: after any calls of start_chrome, start_firefox and _quit_driver at
\* most one browser session is open: every session started before the latest
\* has been quit, _driver is None or the one open session, after _quit_driver
\* _driver is None, and _quit_driver with _driver None changes nothing
C13_OneSession ==
    /\ Cardinality(sessions) <= 1
    /\ \A s \in sessions : s.id = started
    /\ driver = 0 \/ \E s \in sessions : s.id = driver /\ sessions = {s}
    /\ call = "_quit_driver" => driver = 0
    /\ (call = "_quit_driver" /\ before[1] = 0) => sessions = before[2]

\* a session is started twice, _quit_driver is called, and called again
C13_Witness ==
    /\ started = 2
    /\ call = "_quit_driver"
    /\ before = <<0, {}>>
    /\ driver = 0
    /\ sessions = {}
    /\ calls = 4

\* the entries of the parsed page that have the selected column
WithColumn == {e \in 1..Len(soup) : column < soup[e].cells}

\* C9: with skip_existing_images, an entry that has an image is not rendered
\* and nothing is sent to its input field; without it, every entry that has
\* the selected column is rendered, with an image or not.  The flag is the
\* state of the checkbox at the click on Start, which is selected at first.
C9_SkipExistingImages ==
    /\ window \in {"dialog1", "dialog2"} => checkbox_skip_images_status = 1
    /\ rpc = "running" => skip_existing_images = (checkbox_skip_images_status # 0)
    /\ (rpc # "idle" /\ skip_existing_images) =>
          \A e \in rendered \cup sent : ~soup[e].has_image
    /\ (rpc \in {"running", "returned"} /\ ~skip_existing_images) =>
          \A e \in WithColumn : e <= j => e \in rendered
    /\ (rpc = "returned" /\ ~skip_existing_images) => rendered = WithColumn

\* C12: an image is sent to an entry's input field only if render_text left
\* the file for that entry in the same pass, also when render<id>.png is left
\* over from a pass whose upload failed; and after an upload that went
\* through the file render<id>.png is gone
C12_SentOnlyIfRendered ==
    /\ sent \subseteq produced
    /\ \A e \in sent : e <= j => e \notin disk

C9_Witness ==
    /\ rpc = "returned"
    /\ skip_existing_images
    /\ column = 0
    /\ soup = << [cells |-> 1, has_image |-> TRUE], [cells |-> 1, has_image |-> FALSE] >>
    /\ rendered = {2}
    /\ sent = {2}

-----------------------------------------------------------------------------
(* What the specification says of the escapers and the normalizer *)

\* the specification's reserved sets
MarkupReserved == {"&", "<", ">", "\"", "'", "\\", "%"}
TypesettingReserved == {"#", "&", "%", "$", "_", "{", "}", "~", "^", "\\", "\""}

\* the specification's replacements: &amp\; &lt\; &gt\; &quot\; &apos\; &#x5c\; &#x25\;
MarkupEntity ==
       ("&" :> <<"&", "a", "m", "p", "\\", ";">>)
    @@ ("<" :> <<"&", "l", "t", "\\", ";">>)
    @@ (">" :> <<"&", "g", "t", "\\", ";">>)
    @@ ("\"" :> <<"&", "q", "u", "o", "t", "\\", ";">>)
    @@ ("'" :> <<"&", "a", "p", "o", "s", "\\", ";">>)
    @@ ("\\" :> <<"&", "#", "x", "5", "c", "\\", ";">>)
    @@ ("%" :> <<"&", "#", "x", "2", "5", "\\", ";">>)

\* the specification's replacements: \# \& \% \$ \_ \{ \} \textasciitilde{}
\* \textasciicircum{} \textbackslash{} \char"22
TypesettingEscape ==
       ("#" :> <<"\\", "#">>)
    @@ ("&" :> <<"\\", "&">>)
    @@ ("%" :> <<"\\", "%">>)
    @@ ("$" :> <<"\\", "$">>)
    @@ ("_" :> <<"\\", "_">>)
    @@ ("{" :> <<"\\", "{">>)
    @@ ("}" :> <<"\\", "}">>)
    @@ ("~" :> <<"\\", "t", "e", "x", "t", "a", "s", "c", "i", "i", "t", "i",
                 "l", "d", "e", "{", "}">>)
    @@ ("^" :> <<"\\", "t", "e", "x", "t", "a", "s", "c", "i", "i", "c", "i",
                 "r", "c", "u", "m", "{", "}">>)
    @@ ("\\" :> <<"\\", "t", "e", "x", "t", "b", "a", "c", "k", "s", "l", "a",
                  "s", "h", "{", "}">>)
    @@ ("\"" :> <<"\\", "c", "h", "a", "r", "\"", "2", "2">>)

Range(f) == {f[x] : x \in DOMAIN f}

Reserved(f) == IF f \in MarkupEscapers THEN MarkupReserved ELSE TypesettingReserved

EscapeSequences(f) ==
    IF f \in MarkupEscapers THEN Range(MarkupEntity) ELSE Range(TypesettingEscape)

HasReserved(s, reserved) == \E k \in 1..Len(s) : s[k] \in reserved

\* `s` read from the left is a run of code points outside `reserved` and of
\* whole escape sequences: no reserved code point stands outside a sequence
RECURSIVE NoRawReserved(_, _, _)
NoRawReserved(s, reserved, sequences) ==
    \/ s = <<>>
    \/ /\ s # <<>>
       /\ Head(s) \notin reserved
       /\ NoRawReserved(Tail(s), reserved, sequences)
    \/ \E e \in sequences :
         /\ IsPrefix(e, s)
         /\ NoRawReserved(Drop(s, Len(e)), reserved, sequences)

\* the text the k-th application was given
Given(k) == IF k = 1 THEN unsafe ELSE outs[k - 1].value

\* C1: for each dialect and every text, the escaped output holds no raw
\* occurrence of a reserved code point of the dialect: every reserved code
\* point in it belongs to one of the dialect's escape sequences
C1_NoRawReservedInOutput ==
    called \in Escapers =>
        \A k \in 1..Len(outs) :
            /\ ~outs[k].raised
            /\ NoRawReserved(outs[k].value, Reserved(called), EscapeSequences(called))

C1_Witness ==
    /\ called = "EscapePango"
    /\ unsafe = <<"a", "%">>
    /\ Len(outs) = 1
    /\ outs[1].value = <<"a", "&", "#", "x", "2", "5", "\\", ";">>

KeptInFileName(c) == isalnum(c) \/ c = "_" \/ c = "-"

\* C2: for every non-empty label EscapeFileName returns, and never raises, a
\* non-empty string of alphanumeric code points, '_' and '-'
C2_SafeFileName ==
    (called = "EscapeFileName" /\ unsafe # <<>>) =>
        /\ ~outs[1].raised
        /\ outs[1].value # <<>>
        /\ \A k \in 1..Len(outs[1].value) : KeptInFileName(outs[1].value[k])

C2_Witness ==
    /\ called = "EscapeFileName"
    /\ unsafe = <<" ", "/">>
    /\ outs = <<Returned(<<"_", "_">>)>>

\* C3: EscapeFileName("") raises an exception whose message carries the
\* label, and the empty label is the only one for which it raises
C3_NamingFailure ==
    called = "EscapeFileName" =>
        /\ unsafe = <<>> =>
             /\ outs[1].raised
             /\ outs[1].message
                  = <<"F", "i", "l", "e", "n", "a", "m", "e", " ", "'", "'", " ",
                      "n", "o", "t", " ", "v", "a", "l", "i", "d", ".">>
        /\ outs[1].raised => unsafe = <<>>
        /\ outs[1].raised =>
             \E k \in 0..Len(outs[1].message) :
                 SubSeq(outs[1].message, k + 1, k + Len(unsafe)) = unsafe

C3_Witness ==
    /\ called = "EscapeFileName"
    /\ unsafe = <<>>
    /\ Len(outs) = 1
    /\ outs[1].raised

\* C4: EscapeFileName substitutes position by position: the result is as long
\* as the label, holds the label's code point where it is alphanumeric, '_'
\* or '-', and '_' elsewhere; the strip removes nothing
C4_PositionWise ==
    (called = "EscapeFileName" /\ unsafe # <<>>) =>
        /\ ~outs[1].raised
        /\ Len(outs[1].value) = Len(unsafe)
        /\ \A k \in 1..Len(unsafe) :
             outs[1].value[k] = IF KeptInFileName(unsafe[k]) THEN unsafe[k] ELSE "_"
        /\ unsafe = <<".", ".", ".">> => outs[1].value = <<"_", "_", "_">>
        /\ unsafe \in {<<"a", "/", "b">>, <<"a", "_", "b">>}
             => outs[1].value = <<"a", "_", "b">>
        /\ unsafe = <<"c", "a", "f", "U+00E9", " ", "U+03A9", "#", "1">>
             => outs[1].value = <<"c", "a", "f", "U+00E9", "_", "U+03A9", "_", "1">>

C4_Witness ==
    /\ called = "EscapeFileName"
    /\ unsafe = <<"U+00A0", "a", "U+0009">>
    /\ outs = <<Returned(<<"_", "a", "_">>)>>

\* C5: for each dialect and every text with a reserved code point of the
\* dialect, escaping the escaped text gives something else than the escaped
\* text
C5_NeverIdempotent ==
    (called \in Escapers /\ Len(outs) >= 2 /\ HasReserved(unsafe, Reserved(called)))
        => outs[2].value # outs[1].value

C5_Witness ==
    /\ called = "EscapeXelatex"
    /\ unsafe = <<"_">>
    /\ Len(outs) = 2
    /\ outs[1].value = <<"\\", "_">>
    /\ outs[2].value = <<"\\", "t", "e", "x", "t", "b", "a", "c", "k", "s", "l",
                         "a", "s", "h", "{", "}", "\\", "_">>

\* C6: each escaper substitutes code point by code point whatever the context:
\* the escape of a text is the escape of any head of it followed by the escape
\* of the rest, a code point outside the reserved set is copied, and text that
\* is already escaped is escaped again code point by code point
C6_PerCharacter ==
    called \in Escapers =>
        \A k \in 1..Len(outs) :
            LET x == Given(k)
                y == outs[k].value
            IN  /\ \A n \in 0..Len(x) :
                     y = Apply(called, SubSeq(x, 1, n)).value
                         \o Apply(called, Drop(x, n)).value
                /\ y = join([n \in 1..Len(x) |-> Apply(called, <<x[n]>>).value])
                /\ \A n \in 1..Len(x) :
                     x[n] \notin Reserved(called)
                        => Apply(called, <<x[n]>>).value = <<x[n]>>
                /\ HasReserved(x, Reserved(called)) => Len(y) > Len(x)

C6_Witness ==
    /\ called = "EscapePango"
    /\ unsafe = <<"&">>
    /\ Len(outs) = 2
    /\ outs[1].value = <<"&", "a", "m", "p", "\\", ";">>
    /\ outs[2].value = <<"&", "a", "m", "p", "\\", ";", "a", "m", "p",
                         "&", "#", "x", "5", "c", "\\", ";", ";">>

\* C7: EscapePango and make_string_pango_safe agree and replace exactly
\* & < > " ' \ % by &amp\; &lt\; &gt\; &quot\; &apos\; &#x5c\; &#x25\;
C7_MarkupTable ==
    called \in MarkupEscapers =>
        \A k \in 1..Len(outs) :
            LET x == Given(k)
            IN  /\ outs[k].value
                     = join([n \in 1..Len(x) |->
                              IF x[n] \in MarkupReserved
                              THEN MarkupEntity[x[n]] ELSE <<x[n]>>])
                /\ outs[k].value = EscapePango(x)
                /\ outs[k].value = make_string_pango_safe(x)
                /\ x = <<"5", " ", "<", " ", "3", " ", "&", " ", "2", " ", ">", " ", "1">>
                     => outs[k].value
                          = <<"5", " ", "&", "l", "t", "\\", ";", " ", "3", " ",
                              "&", "a", "m", "p", "\\", ";", " ", "2", " ",
                              "&", "g", "t", "\\", ";", " ", "1">>

C7_Witness ==
    /\ called = "make_string_pango_safe"
    /\ unsafe = <<"5", " ", "<", " ", "3", " ", "&", " ", "2", " ", ">", " ", "1">>
    /\ Len(outs) = 1
    /\ Len(outs[1].value) = 26

\* C8: EscapeXelatex and make_string_xelatex_safe agree and replace exactly
\* # & % $ _ { } ~ ^ \ " by \# \& \% \$ \_ \{ \} \textasciitilde{}
\* \textasciicircum{} \textbackslash{} \char"22
C8_TypesettingTable ==
    called \in TypesettingEscapers =>
        \A k \in 1..Len(outs) :
            LET x == Given(k)
            IN  /\ outs[k].value
                     = join([n \in 1..Len(x) |->
                              IF x[n] \in TypesettingReserved
                              THEN TypesettingEscape[x[n]] ELSE <<x[n]>>])
                /\ outs[k].value = EscapeXelatex(x)
                /\ outs[k].value = make_string_xelatex_safe(x)
                /\ x = <<"5", "0", "%", " ", "o", "f", "f", "_", "s", "a", "l", "e">>
                     => outs[k].value
                          = <<"5", "0", "\\", "%", " ", "o", "f", "f", "\\", "_",
                              "s", "a", "l", "e">>

C8_Witness ==
    /\ called = "EscapeXelatex"
    /\ unsafe = <<"5", "0", "%", " ", "o", "f", "f", "_", "s", "a", "l", "e">>
    /\ Len(outs) = 1
    /\ Len(outs[1].value) = 14

=============================================================================
